---- MODULE Spec2Model ----
(***************************************************************************)
(* BioData Manager: the cleaning / intersection / enrichment pipeline of   *)
(* src/app_biodiversidad (utils.py and the "procesar" handler of app.py).  *)
(*                                                                         *)
(* Text is a sequence of one-character strings.  A missing cell (pandas    *)
(* NaN) is the value NaN.  A column name is a sequence of name parts, so   *)
(* that the f-string f"{nombre_fuente}_{extra_col}" is a concatenation.    *)
(* A DataFrame is [columns, rows]: rows[i][k] is the cell of row i under   *)
(* columns[k]; column names may repeat, as pandas allows after a rename.   *)
(***************************************************************************)
EXTENDS Integers, Sequences, FiniteSets, TLC

\* -------------------------------------------------------------- bounds
\* Longest raw species text, in characters.
MaxLen == 2
\* Most rows of a raw table.
MaxRows == 2
\* Most source cards the user gets by "Agregar otra fuente".
MaxSources == 4

\* ------------------------------------------------------------ text
Alphabet == {" ", "a", "A"}

\* Code points, for Python's str comparison.
Ord(c) ==
  CASE c = " " -> 32
    [] c = "1" -> 49
    [] c = "2" -> 50
    [] c = "3" -> 51
    [] c = "A" -> 65
    [] c = "B" -> 66
    [] c = "a" -> 97
    [] c = "b" -> 98
    [] c = "n" -> 110
    [] c = "x" -> 120
    [] c = "y" -> 121
    [] OTHER -> 0

NaN == <<"NaN">>

IsSpace(c) == c = " "

RECURSIVE LStrip(_)
LStrip(s) ==
  IF s = <<>> THEN <<>>
  ELSE IF IsSpace(Head(s)) THEN LStrip(Tail(s)) ELSE s

RECURSIVE RStrip(_)
RStrip(s) ==
  IF s = <<>> THEN <<>>
  ELSE IF IsSpace(s[Len(s)]) THEN RStrip(SubSeq(s, 1, Len(s) - 1)) ELSE s

\* str.strip()
StrStrip(s) == RStrip(LStrip(s))

LowerChar(c) ==
  CASE c = "A" -> "a"
    [] c = "B" -> "b"
    [] c = "C" -> "c"
    [] c = "L" -> "l"
    [] c = "S" -> "s"
    [] c = "T" -> "t"
    [] c = "V" -> "v"
    [] c = "X" -> "x"
    [] OTHER -> c

\* str.lower()
StrLower(s) == [i \in 1..Len(s) |-> LowerChar(s[i])]

\* astype(str) on one cell: a missing value becomes the text 'nan'.
AsStr(v) == IF v = NaN THEN <<"n", "a", "n">> ELSE v

\* Series.str.strip() / Series.str.lower() on one cell: a missing value stays missing.
CellStrip(v) == IF v = NaN THEN NaN ELSE StrStrip(v)
CellLower(v) == IF v = NaN THEN NaN ELSE StrLower(v)

\* Python's s < t on str: lexicographic by code point.
RECURSIVE StrLess(_, _)
StrLess(s, t) ==
  IF t = <<>> THEN FALSE
  ELSE IF s = <<>> THEN TRUE
  ELSE IF Ord(Head(s)) # Ord(Head(t)) THEN Ord(Head(s)) < Ord(Head(t))
  ELSE StrLess(Tail(s), Tail(t))

\* ------------------------------------------------------- sequences
Range(s) == {s[i] : i \in 1..Len(s)}

RECURSIVE SelectIdx(_, _, _)
\* The indices i of 1..n, ascending, with keep[i].
SelectIdx(keep, i, n) ==
  IF i > n THEN <<>>
  ELSE IF keep[i] THEN <<i>> \o SelectIdx(keep, i + 1, n)
  ELSE SelectIdx(keep, i + 1, n)

Positions(s, x) == {i \in 1..Len(s) : s[i] = x}

\* All sequences over S of length at most n.
SeqsUpTo(S, n) == UNION {[1..k -> S] : k \in 0..n}

\* --------------------------------------------------------- DataFrame
ColumnaEstandar == <<"scientificName">>
NumFuentesCol == <<"num_fuentes">>

DataFrame(cols, rws) == [columns |-> cols, rows |-> rws]

\* pd.DataFrame([]): no columns, no rows.
EmptyFrame == DataFrame(<<>>, <<>>)

\* df[col] when col names exactly one column.
ColIdx(df, col) == CHOOSE k \in 1..Len(df.columns) : df.columns[k] = col
Column(df, col) == [i \in 1..Len(df.rows) |-> df.rows[i][ColIdx(df, col)]]

\* df.rename(columns={old: new}): every column named old is renamed.
Rename(df, old, new) ==
  DataFrame([k \in 1..Len(df.columns) |->
               IF df.columns[k] = old THEN new ELSE df.columns[k]],
            df.rows)

\* df[mask]: the rows with mask[i], in order.
FilterRows(df, mask) ==
  LET idx == SelectIdx(mask, 1, Len(df.rows))
  IN DataFrame(df.columns, [j \in 1..Len(idx) |-> df.rows[idx[j]]])

\* df[col] = vals: the column's cells replaced, row by row.
SetColumn(df, col, vals) ==
  LET k == ColIdx(df, col)
  IN DataFrame(df.columns,
       [i \in 1..Len(df.rows) |->
          [c \in 1..Len(df.columns) |->
             IF c = k THEN vals[i] ELSE df.rows[i][c]]])

\* Series.astype(str).str.strip()
SeriesAsStrStrip(vals) == [i \in 1..Len(vals) |-> CellStrip(AsStr(vals[i]))]

\* A variant that leaves the case of the cells as it is.
SeriesLower_Id(vals) == vals

\* Series.str.lower()
SeriesLower(vals) == [i \in 1..Len(vals) |-> CellLower(vals[i])]

\* A variant that keeps the last row of each value.
DropDuplicates_KeepLast(df, col) ==
  LET vals == Column(df, col)
      last == [i \in 1..Len(vals) |-> \A j \in (i + 1)..Len(vals) : vals[j] # vals[i]]
  IN FilterRows(df, last)

\* df.drop_duplicates(subset=[col]): keep the first row of each value.
DropDuplicates(df, col) ==
  LET vals == Column(df, col)
      first == [i \in 1..Len(vals) |-> \A j \in 1..(i - 1) : vals[j] # vals[i]]
  IN FilterRows(df, first)

\* A call's outcome: exc = "none" and the returned frame, or the exception raised.
Ok(df) == [exc |-> "none", df |-> df]
Raise(e) == [exc |-> e, df |-> EmptyFrame]

\* ------------------------------------------------- limpiar_dataframe
\* A variant that drops the duplicates before lower-casing.
LimpiarColumna_DedupFirst(df, columna_especie_original, columna_estandar) ==
  LET renamed == Rename(df, columna_especie_original, columna_estandar)
  IN IF Cardinality(Positions(renamed.columns, columna_estandar)) > 1
     THEN Raise("AttributeError")
     ELSE
       LET stripped == SetColumn(renamed, columna_estandar,
                             SeriesAsStrStrip(Column(renamed, columna_estandar)))
           col1 == Column(stripped, columna_estandar)
           nonempty == FilterRows(stripped,
                         [i \in 1..Len(col1) |-> col1[i] # <<>>])
           deduped == DropDuplicates(nonempty, columna_estandar)
       IN Ok(SetColumn(deduped, columna_estandar,
                       SeriesLower(Column(deduped, columna_estandar))))

\* limpiar_dataframe after its check of the column: rename, strip, drop the empty,
\* lower, drop the duplicates.
LimpiarColumna(df, columna_especie_original, columna_estandar) ==
  LET renamed == Rename(df, columna_especie_original, columna_estandar)
  IN IF Cardinality(Positions(renamed.columns, columna_estandar)) > 1
     \* df_clean[columna_estandar] is then a DataFrame, which has no .str
     THEN Raise("AttributeError")
     ELSE
       LET stripped == SetColumn(renamed, columna_estandar,
                             SeriesAsStrStrip(Column(renamed, columna_estandar)))
           col1 == Column(stripped, columna_estandar)
           nonempty == FilterRows(stripped,
                         [i \in 1..Len(col1) |-> col1[i] # <<>>])
           lowered == SetColumn(nonempty, columna_estandar,
                            SeriesLower(Column(nonempty, columna_estandar)))
       IN Ok(DropDuplicates(lowered, columna_estandar))

\* A variant without the check of the declared column.
LimpiarDataframe_SinCheck(df, columna_especie_original, columna_estandar) ==
  IF columna_estandar \notin Range(Rename(df, columna_especie_original,
                                          columna_estandar).columns)
  THEN Raise("KeyError")
  ELSE LimpiarColumna(df, columna_especie_original, columna_estandar)

LimpiarDataframe(df, columna_especie_original, columna_estandar) ==
  IF columna_especie_original \notin Range(df.columns)
  THEN Raise("ValueError")
  ELSE LimpiarColumna(df, columna_especie_original, columna_estandar)

\* The same call on the outcome of an earlier call: an exception propagates.
LimpiarDeNuevo(res, columna_estandar) ==
  IF res.exc # "none" THEN res
  ELSE LimpiarDataframe(res.df, columna_estandar, columna_estandar)

\* ------------------------------------------------------------- dict
\* A dict is a sequence of [key, val] in insertion order, keys distinct.
Keys(d) == [i \in 1..Len(d) |-> d[i].key]

\* d[k] = v: an existing key keeps its place, a new key goes last.
DictSet(d, k, v) ==
  IF \E i \in 1..Len(d) : d[i].key = k
  THEN [i \in 1..Len(d) |-> IF d[i].key = k THEN [key |-> k, val |-> v] ELSE d[i]]
  ELSE Append(d, [key |-> k, val |-> v])

\* d[k] for a key of d.
DictGet(d, k) == d[CHOOSE i \in 1..Len(d) : d[i].key = k].val

\* All orders in which a set can be enumerated.
Enumerations(S) ==
  {f \in [1..Cardinality(S) -> S] : \A i, j \in 1..Cardinality(S) : f[i] = f[j] => i = j}

\* --------------------------------------------- construir_interseccion
\* set(df[columna_estandar].dropna().unique())
SpeciesSet(df, columna_estandar) ==
  {v \in Range(Column(df, columna_estandar)) : v # NaN}

SpeciesSets(fuentes_limpias, columna_estandar) ==
  [i \in 1..Len(fuentes_limpias) |->
     [key |-> fuentes_limpias[i].key,
      val |-> SpeciesSet(fuentes_limpias[i].val, columna_estandar)]]

AllSpecies(species_sets) == UNION {species_sets[i].val : i \in 1..Len(species_sets)}

\* presencia: per source, in dict order, whether the species is in its set.
Presencia(species_sets, especie) ==
  [i \in 1..Len(species_sets) |-> especie \in species_sets[i].val]

RECURSIVE SumBools(_)
\* sum(presencia.values())
SumBools(bs) ==
  IF bs = <<>> THEN 0 ELSE (IF Head(bs) THEN 1 ELSE 0) + SumBools(Tail(bs))

\* A variant that keeps every species.
MinFuentes_One(num_fuentes) == num_fuentes >= 1

\* The species kept: those reported by two sources or more.
MinFuentes(num_fuentes) == num_fuentes >= 2

\* A variant whose num_fuentes counts every source of the mapping.
Fila_CountAll(species_sets, especie) ==
  LET presencia == Presencia(species_sets, especie)
  IN <<especie, Len(presencia)>>
       \o [i \in 1..Len(presencia) |-> IF presencia[i] THEN 1 ELSE 0]

\* One fila: the species, num_fuentes, then 1/0 per source.
Fila(species_sets, especie) ==
  LET presencia == Presencia(species_sets, especie)
  IN <<especie, SumBools(presencia)>>
       \o [i \in 1..Len(presencia) |-> IF presencia[i] THEN 1 ELSE 0]

RECURSIVE Filas(_, _)
\* The loop over all_species, in the order the set is enumerated.
Filas(species_sets, orden) ==
  IF orden = <<>> THEN <<>>
  ELSE LET presencia == Presencia(species_sets, Head(orden))
       IN (IF MinFuentes(SumBools(presencia))
           THEN <<Fila(species_sets, Head(orden))>> ELSE <<>>)
          \o Filas(species_sets, Tail(orden))

\* pd.DataFrame(filas): the columns are the keys of the filas; none without filas.
FrameOfFilas(filas, species_sets, columna_estandar) ==
  IF filas = <<>> THEN EmptyFrame
  ELSE DataFrame(<<columna_estandar, NumFuentesCol>> \o Keys(species_sets), filas)

\* A variant that sorts num_fuentes ascending.
FilaBefore_Asc(r1, r2, kn, ks) ==
  \/ r1[kn] < r2[kn]
  \/ r1[kn] = r2[kn] /\ StrLess(r1[ks], r2[ks])

\* by=["num_fuentes", columna_estandar], ascending=[False, True]
FilaBefore(r1, r2, kn, ks) ==
  \/ r1[kn] > r2[kn]
  \/ r1[kn] = r2[kn] /\ StrLess(r1[ks], r2[ks])

RECURSIVE InsertFila(_, _, _, _)
\* r placed after every row that is not after it (a stable insertion).
InsertFila(r, sorted, kn, ks) ==
  IF sorted = <<>> THEN <<r>>
  ELSE IF FilaBefore(r, Head(sorted), kn, ks) THEN <<r>> \o sorted
  ELSE <<Head(sorted)>> \o InsertFila(r, Tail(sorted), kn, ks)

RECURSIVE SortFilas(_, _, _)
SortFilas(rws, kn, ks) ==
  IF rws = <<>> THEN <<>>
  ELSE InsertFila(rws[Len(rws)], SortFilas(SubSeq(rws, 1, Len(rws) - 1), kn, ks), kn, ks)

\* tabla.sort_values(...).reset_index(drop=True), when the table is not empty.
SortValues(df, columna_estandar) ==
  IF df.rows = <<>> THEN df
  ELSE DataFrame(df.columns,
         SortFilas(df.rows, ColIdx(df, NumFuentesCol), ColIdx(df, columna_estandar)))

\* construir_interseccion; orden is the order in which all_species is enumerated.
ConstruirInterseccion(fuentes_limpias, columna_estandar, orden) ==
  LET species_sets == SpeciesSets(fuentes_limpias, columna_estandar)
  IN IF species_sets = <<>>
     THEN [species_sets |-> <<>>, tabla |-> DataFrame(<<columna_estandar>>, <<>>)]
     ELSE [species_sets |-> species_sets,
           tabla |-> SortValues(
                       FrameOfFilas(Filas(species_sets, orden), species_sets,
                                    columna_estandar),
                       columna_estandar)]

\* ------------------------------------------------- columnas extra
\* df[[c1, c2]]: a KeyError when one of them is not a column.
SelectColumns(df, cols) ==
  IF \E k \in 1..Len(cols) : cols[k] \notin Range(df.columns)
  THEN Raise("KeyError")
  ELSE Ok(DataFrame(cols,
         [i \in 1..Len(df.rows) |->
            [k \in 1..Len(cols) |-> df.rows[i][ColIdx(df, cols[k])]]]))

\* A variant that names the new column after the extra column alone.
NuevoNombreCol_SinFuente(nombre_fuente, extra_col) == extra_col

\* f"{nombre_fuente}_{extra_col}"
NuevoNombreCol(nombre_fuente, extra_col) == nombre_fuente \o <<"_">> \o extra_col

RECURSIVE MergeRows(_, _, _, _, _)
\* Left join, row by row: a left row once per matching right row, in right order,
\* or once with missing values when nothing matches.
MergeRows(lrows, rrows, kl, kr, others) ==
  IF lrows = <<>> THEN <<>>
  ELSE
    LET l == Head(lrows)
        hit == SelectIdx([j \in 1..Len(rrows) |-> rrows[j][kr] = l[kl]], 1, Len(rrows))
        out == IF hit = <<>>
               THEN <<l \o [k \in 1..Len(others) |-> NaN]>>
               ELSE [m \in 1..Len(hit) |->
                       l \o [k \in 1..Len(others) |-> rrows[hit[m]][others[k]]]]
    IN out \o MergeRows(Tail(lrows), rrows, kl, kr, others)

\* left.merge(right, on=on, how="left"); the names of right's other columns are
\* new to left here, so no _x/_y suffix arises.
Merge(left, right, on) ==
  IF on \notin Range(left.columns) \/ on \notin Range(right.columns)
  THEN Raise("KeyError")
  ELSE
    LET kl == ColIdx(left, on)
        kr == ColIdx(right, on)
        others == SelectIdx([k \in 1..Len(right.columns) |-> k # kr],
                            1, Len(right.columns))
    IN Ok(DataFrame(left.columns \o [k \in 1..Len(others) |-> right.columns[others[k]]],
                    MergeRows(left.rows, right.rows, kl, kr, others)))

\* One pass of the loop over extra_cols_map.
MergeExtra(tabla_final, df_limpio, nombre_fuente, extra_col, columna_estandar) ==
  LET sel == SelectColumns(df_limpio, <<columna_estandar, extra_col>>)
  IN IF sel.exc # "none" THEN sel
     ELSE Merge(tabla_final,
                Rename(DropDuplicates(sel.df, columna_estandar), extra_col,
                       NuevoNombreCol(nombre_fuente, extra_col)),
                columna_estandar)

\* ------------------------------------------------- filtro de busqueda
\* re.search(busqueda, texto, re.IGNORECASE) for a pattern of literal characters
\* and '.', which stands for any character.
RegexMatchAt(pat, texto, i) ==
  \A k \in 1..Len(pat) :
     pat[k] = "." \/ LowerChar(pat[k]) = LowerChar(texto[i + k - 1])

RegexSearch(pat, texto) ==
  \E i \in 1..(Len(texto) - Len(pat) + 1) : RegexMatchAt(pat, texto, i)

\* re.compile raises on an unbalanced parenthesis.
RegexCompiles(pat) == "(" \notin Range(pat) /\ ")" \notin Range(pat)

\* df[df[columna_estandar].str.contains(busqueda, case=False, na=False)]
FiltroBusqueda(df, busqueda, columna_estandar) ==
  IF columna_estandar \notin Range(df.columns) THEN Raise("KeyError")
  ELSE IF ~RegexCompiles(busqueda) THEN Raise("re.error")
  ELSE LET col == Column(df, columna_estandar)
       IN Ok(FilterRows(df, [i \in 1..Len(col) |->
                               col[i] # NaN /\ RegexSearch(busqueda, col[i])]))

\* ----------------------------------------------------------- inputs
Especie == <<"especie">>
Estado == <<"estado">>
Ausente == <<"iucn_status">>
Blank == <<>>

\* default_names: the names of the three first sources.
DefaultNames == << <<"SIB">>, <<"GBIF">>, <<"IUCN">> >>

Digits == <<"1", "2", "3", "4", "5", "6", "7", "8", "9">>
IdStr(i) == <<Digits[i]>>

\* Raw species cells of the normalisation runs: every text up to MaxLen, or missing.
RawCells == SeqsUpTo(Alphabet, MaxLen) \cup {NaN}

\* A raw file: the species cells in column k of two, and a second column that
\* numbers the rows.
RawFrame(cols, k, cells) ==
  DataFrame(cols, [i \in 1..Len(cells) |->
                     IF k = 1 THEN <<cells[i], IdStr(i)>> ELSE <<IdStr(i), cells[i]>>])

\* The normalisation runs: a file whose species column is renamed, or already has
\* the canonical name; and files where the call raises (the declared column is
\* missing, or the canonical name is also the name of another column).
NormLayouts ==
  {[cols |-> <<Especie, Estado>>, k |-> 1, col |-> Especie],
   [cols |-> <<Estado, ColumnaEstandar>>, k |-> 2, col |-> ColumnaEstandar]}

NormInputs ==
  {[df |-> RawFrame(lc.cols, lc.k, cells), col |-> lc.col] :
     lc \in NormLayouts, cells \in SeqsUpTo(RawCells, MaxRows)}

NormRaisingLayouts ==
  {[cols |-> <<Especie, ColumnaEstandar>>, k |-> 1, col |-> Especie],
   [cols |-> <<Especie, Estado>>, k |-> 1, col |-> Ausente]}

NormRaisingInputs ==
  {[df |-> RawFrame(lc.cols, lc.k, cells), col |-> lc.col] :
     lc \in NormRaisingLayouts, cells \in SeqsUpTo(RawCells, 1)}

\* Raw species cells per source of the runs that vary the data.
PoolOf(i) ==
  CASE i = 1 -> {<<"a">>, <<"b">>, <<" ">>}
    [] i = 2 -> {<<"A">>, <<"b", " ">>}
    [] OTHER -> {<<" ", "a">>, <<"B">>}

Source(nombre, df, species_col, extra_col) ==
  [name |-> nombre, df_raw |-> df, species_col |-> species_col, extra_col |-> extra_col]

\* Runs that vary the data: three sources, the species column declared, no extra.
InputsDatos ==
  {[i \in 1..3 |-> Source(DefaultNames[i],
                          RawFrame(<<Especie, Estado>>, 1, <<c1, c2, c3>>[i]),
                          Especie, Blank)] :
     c1 \in SeqsUpTo(PoolOf(1), MaxRows),
     c2 \in SeqsUpTo(PoolOf(2), MaxRows),
     c3 \in SeqsUpTo(PoolOf(3), MaxRows)}

\* One fixed file per source for the runs that vary the configuration.
SampleFrame(i) ==
  CASE i = 1 -> DataFrame(<<Especie, Estado>>,
                  << <<<<"a">>, <<"x">>>>, <<<<"A", " ">>, <<"y">>>>,
                     <<<<"b">>, NaN>>, <<NaN, <<"x">>>> >>)
    [] i = 2 -> DataFrame(<<Especie, Estado>>,
                  << <<<<" ", "A">>, <<"y">>>>, <<<<" ">>, <<"x">>>>, <<NaN, <<"y">>>> >>)
    [] OTHER -> DataFrame(<<ColumnaEstandar, Especie, Estado>>,
                  << <<<<"B">>, <<"b">>, <<"x">>>>, <<<<"b">>, <<"B">>, <<"y">>>> >>)

SpeciesColChoices == {Blank, Especie, ColumnaEstandar, Ausente}
ExtraColChoices == {Blank, Estado, Ausente, ColumnaEstandar, Especie}

RECURSIVE SubSeqs(_)
\* The subsequences of s: the sources that have a file, in slot order.
SubSeqs(s) ==
  IF s = <<>> THEN {<<>>}
  ELSE LET rest == SubSeqs(Tail(s))
       IN rest \cup {<<Head(s)>> \o r : r \in rest}

\* Runs that vary the configuration: any sources loaded, any declared columns.
InputsColumnas ==
  UNION {
    {[k \in 1..Len(slots) |->
        Source(DefaultNames[slots[k]], SampleFrame(slots[k]), sc[k], ec[k])] :
       sc \in [1..Len(slots) -> SpeciesColChoices],
       ec \in [1..Len(slots) -> ExtraColChoices]} :
    slots \in SubSeqs(<<1, 2, 3>>)}

Busquedas == {<<>>, <<"a">>, <<".">>, <<"(">>}

\* ------------------------------------------------------------ state
VARIABLES
  sources_info,       \* the loaded sources: name, df_raw, species_col, extra_col
  busqueda,           \* the search text
  pc,                 \* where the "procesar" run stands
  idx,                \* position of the running loop
  fuentes_limpias,    \* dict name -> cleaned frame
  extra_cols_map,     \* dict name -> extra column
  species_sets,       \* dict name -> set of species
  tabla_interseccion,
  tabla_final,
  df_resultado,
  mensajes,           \* st.error / st.warning calls, in order
  salida,             \* what the run has displayed
  n_pc, n_df, n_col, n_res, n_res2,  \* the normalisation runs
  num_sources,        \* st.session_state.num_sources
  tarjetas,           \* per card: the uploaded file and the two column inputs
  app_pc,             \* how the last run of the script ended
  clics_agregar       \* clicks on "Agregar otra fuente" so far

vars == <<sources_info, busqueda, pc, idx, fuentes_limpias, extra_cols_map,
          species_sets, tabla_interseccion, tabla_final, df_resultado, mensajes,
          salida, n_pc, n_df, n_col, n_res, n_res2, num_sources, tarjetas, app_pc,
          clics_agregar>>

pipeVars == <<sources_info, busqueda, pc, idx, fuentes_limpias, extra_cols_map,
              species_sets, tabla_interseccion, tabla_final, df_resultado, mensajes,
              salida>>
normVars == <<n_pc, n_df, n_col, n_res, n_res2>>
appVars == <<num_sources, tarjetas, app_pc, clics_agregar>>

\* A card without a file: the file, and the default texts of its two inputs.
NoFile == [name |-> <<>>, formato |-> "none", df |-> [columns |-> <<>>, rows |-> <<>>]]
SinArchivo == [file |-> NoFile, species_col |-> ColumnaEstandar, extra_col |-> Blank]

NoResult == Raise("pending")

PipeIdle ==
  /\ busqueda = <<>>
  /\ idx = 0
  /\ fuentes_limpias = <<>>
  /\ extra_cols_map = <<>>
  /\ species_sets = <<>>
  /\ tabla_interseccion = EmptyFrame
  /\ tabla_final = EmptyFrame
  /\ df_resultado = EmptyFrame
  /\ mensajes = <<>>
  /\ salida = {}

\* The three first cards, nothing uploaded, no click.
AppIdle ==
  /\ num_sources = 3
  /\ tarjetas = <<SinArchivo, SinArchivo, SinArchivo>>
  /\ app_pc = "off"
  /\ clics_agregar = 0

NormIdle ==
  /\ n_pc = "off"
  /\ n_df = EmptyFrame
  /\ n_col = Blank
  /\ n_res = NoResult
  /\ n_res2 = NoResult

Init ==
  /\ \/ sources_info \in InputsDatos
     \/ sources_info \in InputsColumnas
  /\ pc = "inicio"
  /\ PipeIdle
  /\ NormIdle
  /\ AppIdle

Msg(tipo, texto, fuente) == [tipo |-> tipo, texto |-> texto, fuente |-> fuente]

\* "if procesar:" with no source loaded, or the start of the try block.  The
\* script gets there only when its loading loop has not raised.
Procesar ==
  /\ pc = "inicio"
  /\ app_pc # "excepcion"
  /\ IF sources_info = <<>>
     THEN /\ mensajes' = Append(mensajes, Msg("error", "sin_fuentes", Blank))
          /\ pc' = "fin"
          /\ idx' = idx
     ELSE /\ mensajes' = mensajes
          /\ pc' = "limpieza"
          /\ idx' = 1
  /\ UNCHANGED <<sources_info, busqueda, fuentes_limpias, extra_cols_map, species_sets,
                 tabla_interseccion, tabla_final, df_resultado, salida, normVars, appVars>>

\* The except clauses: ValueError, then any other exception.
ErrorMsg(exc) ==
  IF exc = "ValueError" THEN Msg("error", "problema", <<exc>>)
  ELSE Msg("error", "inesperado", <<exc>>)

\* A variant that takes every declared extra column as present.
ExtraValida_Siempre(extra_col, df_clean) == TRUE

\* "if extra_col not in df_clean.columns" is false.
ExtraValida(extra_col, df_clean) == extra_col \in Range(df_clean.columns)

\* The body of the loop "1. Limpieza por fuente" for one source: the dicts and the
\* messages after it, and where the run goes ("limpieza": on to the next source).
LimpiarPaso(src, limpias, extras, msgs) ==
  LET nombre == src.name
      species_col == src.species_col
      extra_col == src.extra_col
      res == LimpiarDataframe(src.df_raw, species_col, ColumnaEstandar)
      fin(p, m) == [pc |-> p, fuentes_limpias |-> limpias, extra_cols_map |-> extras,
                    mensajes |-> Append(msgs, m)]
  IN IF species_col = Blank
     THEN fin("stop", Msg("error", "sin_columna_especie", nombre))
     ELSE IF res.exc # "none"
     THEN fin("error", ErrorMsg(res.exc))
     ELSE [pc |-> "limpieza",
           fuentes_limpias |-> DictSet(limpias, nombre, res.df),
           extra_cols_map |->
             IF extra_col # Blank /\ ExtraValida(extra_col, res.df)
             THEN DictSet(extras, nombre, extra_col) ELSE extras,
           mensajes |->
             IF extra_col # Blank /\ ~ExtraValida(extra_col, res.df)
             THEN Append(msgs, Msg("warning", "sin_columna_extra", nombre)) ELSE msgs]

\* One pass of "1. Limpieza por fuente".
LimpiarFuente ==
  /\ pc = "limpieza"
  /\ idx <= Len(sources_info)
  /\ LET r == LimpiarPaso(sources_info[idx], fuentes_limpias, extra_cols_map, mensajes)
     IN /\ pc' = r.pc
        /\ fuentes_limpias' = r.fuentes_limpias
        /\ extra_cols_map' = r.extra_cols_map
        /\ mensajes' = r.mensajes
        /\ idx' = IF r.pc = "limpieza" THEN idx + 1 ELSE idx
  /\ UNCHANGED <<sources_info, busqueda, species_sets, tabla_interseccion, tabla_final,
                 df_resultado, salida, normVars, appVars>>

\* "2. Interseccion de especies", and the copy that starts step 3.
Interseccion ==
  /\ pc = "limpieza"
  /\ idx > Len(sources_info)
  /\ IF fuentes_limpias = <<>>
     THEN /\ mensajes' = Append(mensajes, Msg("warning", "sin_fuentes_validas", Blank))
          /\ pc' = "stop"
          /\ UNCHANGED <<idx, species_sets, tabla_interseccion, tabla_final>>
     ELSE \E orden \in Enumerations(AllSpecies(SpeciesSets(fuentes_limpias, ColumnaEstandar))) :
            LET r == ConstruirInterseccion(fuentes_limpias, ColumnaEstandar, orden)
            IN /\ species_sets' = r.species_sets
               /\ tabla_interseccion' = r.tabla
               /\ tabla_final' = r.tabla
               /\ mensajes' = mensajes
               /\ pc' = "extra"
               /\ idx' = 1
  /\ UNCHANGED <<sources_info, busqueda, fuentes_limpias, extra_cols_map, df_resultado,
                 salida, normVars, appVars>>

\* One pass of "3. Agregar columnas extra".
AgregarExtra ==
  /\ pc = "extra"
  /\ idx <= Len(extra_cols_map)
  /\ LET nombre_fuente == extra_cols_map[idx].key
         extra_col == extra_cols_map[idx].val
         res == MergeExtra(tabla_final, DictGet(fuentes_limpias, nombre_fuente),
                           nombre_fuente, extra_col, ColumnaEstandar)
     IN IF res.exc # "none"
        THEN /\ mensajes' = Append(mensajes, ErrorMsg(res.exc))
             /\ pc' = "error"
             /\ UNCHANGED <<idx, tabla_final>>
        ELSE /\ tabla_final' = res.df
             /\ idx' = idx + 1
             /\ UNCHANGED <<pc, mensajes>>
  /\ UNCHANGED <<sources_info, busqueda, fuentes_limpias, extra_cols_map, species_sets,
                 tabla_interseccion, df_resultado, salida, normVars, appVars>>

\* What steps 5 to 7 display for a result of n rows.
Salida(n_inter, sets) ==
  {"resumen"}
    \cup (IF n_inter > 0 THEN {"tabla", "descarga", "graficos"} ELSE {})
    \cup (IF sets # <<>> THEN {"indicadores"} ELSE {})

\* "4. Filtro de busqueda" with the text in the search box, then steps 5 to 7.
Mostrar ==
  /\ pc = "extra"
  /\ idx > Len(extra_cols_map)
  /\ \E b \in Busquedas :
       LET res == IF b # <<>> THEN FiltroBusqueda(tabla_final, b, ColumnaEstandar)
                  ELSE Ok(tabla_final)
       IN /\ busqueda' = b
          /\ IF res.exc # "none"
             THEN /\ mensajes' = Append(mensajes, ErrorMsg(res.exc))
                  /\ pc' = "error"
                  /\ UNCHANGED <<df_resultado, salida>>
             ELSE /\ df_resultado' = res.df
                  /\ salida' = Salida(Len(res.df.rows), species_sets)
                  /\ pc' = "fin"
                  /\ mensajes' = mensajes
  /\ UNCHANGED <<sources_info, idx, fuentes_limpias, extra_cols_map, species_sets,
                 tabla_interseccion, tabla_final, normVars, appVars>>

Next == Procesar \/ LimpiarFuente \/ Interseccion \/ AgregarExtra \/ Mostrar

Spec == Init /\ [][Next]_vars

\* ------------------------------------------- the run as a function
\* The loop "1. Limpieza por fuente" from source i on.
RECURSIVE Limpieza(_, _, _)
Limpieza(sources, i, st) ==
  IF i > Len(sources) THEN st
  ELSE LET r == LimpiarPaso(sources[i], st.fuentes_limpias, st.extra_cols_map,
                            st.mensajes)
       IN IF r.pc # "limpieza" THEN r ELSE Limpieza(sources, i + 1, r)

\* The loop "3. Agregar columnas extra" from entry i on: the table reached, and
\* the exception that stopped it, if any.
RECURSIVE Enriquecer(_, _, _, _)
Enriquecer(tabla, limpias, extras, i) ==
  IF i > Len(extras) THEN Ok(tabla)
  ELSE LET res == MergeExtra(tabla, DictGet(limpias, extras[i].key), extras[i].key,
                             extras[i].val, ColumnaEstandar)
       IN IF res.exc # "none" THEN [exc |-> res.exc, df |-> tabla]
          ELSE Enriquecer(res.df, limpias, extras, i + 1)

Outcome(p, msgs, sets, inter, final, result, shown) ==
  [pc |-> p, mensajes |-> msgs, species_sets |-> sets, tabla_interseccion |-> inter,
   tabla_final |-> final, df_resultado |-> result, salida |-> shown]

\* The whole "procesar" run on the loaded sources and the search text b.
RunOutcome(sources, b) ==
  IF sources = <<>>
  THEN Outcome("fin", <<Msg("error", "sin_fuentes", Blank)>>, <<>>, EmptyFrame,
               EmptyFrame, EmptyFrame, {})
  ELSE
    LET l == Limpieza(sources, 1, [pc |-> "limpieza", fuentes_limpias |-> <<>>,
                                   extra_cols_map |-> <<>>, mensajes |-> <<>>])
    IN IF l.pc # "limpieza"
       THEN Outcome(l.pc, l.mensajes, <<>>, EmptyFrame, EmptyFrame, EmptyFrame, {})
       ELSE
         LET all == AllSpecies(SpeciesSets(l.fuentes_limpias, ColumnaEstandar))
             r == ConstruirInterseccion(l.fuentes_limpias, ColumnaEstandar,
                                        CHOOSE orden \in Enumerations(all) : TRUE)
             e == Enriquecer(r.tabla, l.fuentes_limpias, l.extra_cols_map, 1)
             f == IF b # <<>> THEN FiltroBusqueda(e.df, b, ColumnaEstandar) ELSE Ok(e.df)
         IN IF e.exc # "none"
            THEN Outcome("error", Append(l.mensajes, ErrorMsg(e.exc)), r.species_sets,
                         r.tabla, e.df, EmptyFrame, {})
            ELSE IF f.exc # "none"
            THEN Outcome("error", Append(l.mensajes, ErrorMsg(f.exc)), r.species_sets,
                         r.tabla, e.df, EmptyFrame, {})
            ELSE Outcome("fin", l.mensajes, r.species_sets, r.tabla, e.df, f.df,
                         Salida(Len(f.df.rows), r.species_sets))

\* ------------------------------------------- normalisation runs
InitNorm ==
  /\ \/ \E inp \in NormInputs : n_df = inp.df /\ n_col = inp.col
     \/ \E inp \in NormRaisingInputs : n_df = inp.df /\ n_col = inp.col
  /\ n_pc = "start"
  /\ n_res = NoResult
  /\ n_res2 = NoResult
  /\ sources_info = <<>>
  /\ pc = "off"
  /\ PipeIdle
  /\ AppIdle

\* limpiar_dataframe(df, col, columna_estandar)
Limpiar ==
  /\ n_pc = "start"
  /\ n_res' = LimpiarDataframe(n_df, n_col, ColumnaEstandar)
  /\ n_pc' = "once"
  /\ UNCHANGED <<n_df, n_col, n_res2, pipeVars, appVars>>

\* The same call on its own result, the canonical name as both names.
LimpiarOtraVez ==
  /\ n_pc = "once"
  /\ n_res2' = LimpiarDeNuevo(n_res, ColumnaEstandar)
  /\ n_pc' = "twice"
  /\ UNCHANGED <<n_df, n_col, n_res, pipeVars, appVars>>

NextNorm == Limpiar \/ LimpiarOtraVez

SpecNorm == InitNorm /\ [][NextNorm]_vars

\* ----------------------------------------------- leer_archivo_subido
RECURSIVE LastPart(_)
\* nombre.split(".")[-1]: what follows the last dot, the whole name without a dot.
LastPart(nombre) ==
  IF "." \notin Range(nombre) THEN nombre
  ELSE LastPart(Tail(nombre))

Extension(nombre) == StrLower(LastPart(nombre))

Csv == <<"c", "s", "v">>
Xls == <<"x", "l", "s">>
Xlsx == <<"x", "l", "s", "x">>

\* pd.read_csv / pd.read_excel: the table of a file of that format; the parser
\* raises on any other content.
ReadCsv(file) == IF file.formato = "csv" THEN Ok(file.df) ELSE Raise("ParserError")
ReadExcel(file) == IF file.formato = "excel" THEN Ok(file.df) ELSE Raise("ParserError")

\* return None
NoneResult == [exc |-> "none", df |-> [none |-> TRUE]]

leer_archivo_subido(file) ==
  IF file = NoFile THEN NoneResult
  ELSE IF Extension(file.name) = Csv THEN ReadCsv(file)
  ELSE IF Extension(file.name) \in {Xls, Xlsx} THEN ReadExcel(file)
  ELSE Raise("ValueError")

\* ------------------------------------------------- the app script
Archivo(nombre, formato, df) == [name |-> nombre, formato |-> formato, df |-> df]

\* What the file_uploader of a card takes (type=["csv", "xlsx"]), with the texts
\* typed in the card: a readable CSV, a CSV that cannot be parsed, and a readable
\* Excel file with a species column it does not have.
Cargas ==
  {[file |-> Archivo(<<"a", ".", "c", "s", "v">>, "csv", SampleFrame(1)),
    species_col |-> Especie, extra_col |-> Estado],
   [file |-> Archivo(<<"c", ".", "c", "s", "v">>, "ilegible", EmptyFrame),
    species_col |-> Especie, extra_col |-> Blank],
   [file |-> Archivo(<<"d", ".", "x", "l", "s", "x">>, "excel", SampleFrame(2)),
    species_col |-> Ausente, extra_col |-> Blank]}

\* A variant that gives the cards after the third the names of the three first.
NombreBase_Ciclo(i) == DefaultNames[((i - 1) % 3) + 1]

\* nombre_base of card i (counted from 1): default_names, then f"Fuente {i+1}".
NombreBase(i) ==
  IF i <= Len(DefaultNames) THEN DefaultNames[i]
  ELSE <<"Fuente ", Digits[i]>>

RECURSIVE CargarFuentes(_, _, _)
\* The loop "for i in range(num_sources)" that fills sources_info, from card i on:
\* the list, or the exception that leer_archivo_subido raised.
CargarFuentes(cards, i, sources) ==
  IF i > Len(cards) THEN [exc |-> "none", sources |-> sources]
  ELSE IF cards[i].file = NoFile THEN CargarFuentes(cards, i + 1, sources)
  ELSE LET res == leer_archivo_subido(cards[i].file)
       IN IF res.exc # "none" THEN [exc |-> res.exc, sources |-> sources]
          ELSE CargarFuentes(cards, i + 1,
                 Append(sources, Source(NombreBase(i), res.df, cards[i].species_col,
                                        StrStrip(cards[i].extra_col))))

\* One run of the script on the cards, up to the "procesar" button: the loading
\* loop; nothing of an earlier run stays on the page.  An exception of the loading
\* loop is caught by nothing in the script, which ends there.
Script(cards) ==
  LET carga == CargarFuentes(cards, 1, <<>>)
  IN /\ IF carga.exc # "none"
        THEN /\ app_pc' = "excepcion"
             /\ sources_info' = <<>>
        ELSE /\ app_pc' = "listo"
             /\ sources_info' = carga.sources
     /\ pc' = "inicio"
     /\ busqueda' = <<>>
     /\ idx' = 0
     /\ fuentes_limpias' = <<>>
     /\ extra_cols_map' = <<>>
     /\ species_sets' = <<>>
     /\ tabla_interseccion' = EmptyFrame
     /\ tabla_final' = EmptyFrame
     /\ df_resultado' = EmptyFrame
     /\ mensajes' = <<>>
     /\ salida' = {}

\* No "procesar" run is under way.
EnReposo == pc \in {"inicio", "fin", "error", "stop"}

\* The first run of the script: three cards, nothing uploaded.
InitApp ==
  /\ num_sources = 3
  /\ tarjetas = <<SinArchivo, SinArchivo, SinArchivo>>
  /\ app_pc = "listo"
  /\ clics_agregar = 0
  /\ sources_info = <<>>
  /\ pc = "inicio"
  /\ PipeIdle
  /\ NormIdle

\* The user uploads a file in card i and types its columns; the script runs again.
Subir ==
  /\ EnReposo
  /\ \E i \in 1..num_sources : \E c \in Cargas :
       /\ tarjetas' = [tarjetas EXCEPT ![i] = c]
       /\ Script(tarjetas')
  /\ UNCHANGED <<num_sources, clics_agregar, normVars>>

\* The user removes the file of card i; the script runs again.
Quitar ==
  /\ EnReposo
  /\ \E i \in 1..num_sources :
       /\ tarjetas[i].file # NoFile
       /\ tarjetas' = [tarjetas EXCEPT ![i].file = NoFile]
       /\ Script(tarjetas')
  /\ UNCHANGED <<num_sources, clics_agregar, normVars>>

\* "Agregar otra fuente": num_sources += 1 and st.rerun().
AgregarFuente ==
  /\ EnReposo
  /\ num_sources < MaxSources
  /\ num_sources' = num_sources + 1
  /\ clics_agregar' = clics_agregar + 1
  /\ tarjetas' = Append(tarjetas, SinArchivo)
  /\ Script(tarjetas')
  /\ UNCHANGED normVars

\* The script runs on every event; a click on "procesar" runs the loading loop
\* again, with the same outcome, and then the steps of "if procesar".
NextApp ==
  \/ Subir \/ Quitar \/ AgregarFuente
  \/ Procesar \/ LimpiarFuente \/ Interseccion \/ AgregarExtra \/ Mostrar

SpecApp == InitApp /\ [][NextApp]_vars

\* =========================================================== claims
\* The text of a canonical cell is normalised: not missing, not empty, no space at
\* either end, no upper-case letter.
Normalised(v) ==
  /\ v # NaN
  /\ v # <<>>
  /\ ~IsSpace(v[1])
  /\ ~IsSpace(v[Len(v)])
  /\ \A k \in 1..Len(v) : v[k] \notin {"A", "B"}

\* A frame with exactly one canonical column, whose cells are normalised and
\* pairwise distinct.
NormalisedFrame(df) ==
  /\ Cardinality(Positions(df.columns, ColumnaEstandar)) = 1
  /\ LET col == Column(df, ColumnaEstandar)
     IN /\ \A i \in 1..Len(col) : Normalised(col[i])
        /\ \A i, j \in 1..Len(col) : col[i] = col[j] => i = j

\* C1 (as claimed): for every table and every declared column that is a column of
\* the table, limpiar_dataframe returns a table whose canonical column holds only
\* non-empty, trimmed, lower-case, pairwise distinct values.
C1_NormalizeReturnsClean ==
  (n_pc \in {"once", "twice"} /\ n_col \in Range(n_df.columns))
    => (n_res.exc = "none" /\ NormalisedFrame(n_res.df))

\* Whenever limpiar_dataframe returns, the returned canonical column is clean.
CleanOnReturn ==
  (n_pc \in {"once", "twice"} /\ n_res.exc = "none") => NormalisedFrame(n_res.df)

\* limpiar_dataframe raises on a declared column that exists only when the
\* canonical name is also the name of another column.
RaisesOnlyOnClash ==
  (n_pc \in {"once", "twice"} /\ n_col \in Range(n_df.columns) /\ n_res.exc # "none")
    => (n_res.exc = "AttributeError"
        /\ n_col # ColumnaEstandar /\ ColumnaEstandar \in Range(n_df.columns))

\* C10: limpiar_dataframe is idempotent: cleaning its own result again, with the
\* canonical name as both names, returns the same frame (same columns, same rows
\* in the same order); a first call that raises is the outcome of both sides.
C10_Idempotent == n_pc = "twice" => n_res2 = n_res

\* C10 witness: a second cleaning of a result that the first cleaning had to
\* shorten and to rewrite.
C10_Witness ==
  /\ n_pc = "twice"
  /\ n_res.exc = "none"
  /\ n_res2.exc = "none"
  /\ Len(n_res.df.rows) = 2
  /\ n_col # ColumnaEstandar
  /\ \E i \in 1..Len(n_df.rows) :
       n_df.rows[i][1] \notin Range(Column(n_res.df, ColumnaEstandar))

\* ---------------------------------------------- claims on the run
\* construir_interseccion has returned in this run.
Produced == pc \in {"extra", "fin"} \/ (pc = "error" /\ species_sets # <<>>)

\* The species of source i's cleaned frame.
CleanSpecies(i) == Range(Column(fuentes_limpias[i].val, ColumnaEstandar))

\* In how many cleaned sources s is a species.
CountIn(s) == Cardinality({i \in 1..Len(fuentes_limpias) : s \in CleanSpecies(i)})

RECURSIVE SumSeq(_)
SumSeq(xs) == IF xs = <<>> THEN 0 ELSE Head(xs) + SumSeq(Tail(xs))

TableSpecies(df) ==
  IF df.columns = <<>> THEN {} ELSE Range(Column(df, ColumnaEstandar))

\* C2: every row of the intersection table has one 0/1 indicator per source of the
\* mapping, and num_fuentes equals the sum of the indicators, equals the number of
\* sources whose species set holds the row's species, and is at least 2.
C2_SourceCount ==
  Produced =>
    LET t == tabla_interseccion
        n == Len(fuentes_limpias)
    IN \A r \in 1..Len(t.rows) :
         LET row == t.rows[r]
         IN /\ t.columns = <<ColumnaEstandar, NumFuentesCol>> \o Keys(fuentes_limpias)
            /\ Len(row) = n + 2
            /\ \A k \in 1..n : row[k + 2] \in {0, 1}
            /\ \A k \in 1..n : row[k + 2] = 1 <=> row[1] \in CleanSpecies(k)
            /\ row[2] = SumSeq(SubSeq(row, 3, n + 2))
            /\ row[2] = CountIn(row[1])
            /\ row[2] >= 2

\* C2 witness: a table with a species of all three sources and a species of two.
C2_Witness ==
  /\ Produced
  /\ Len(fuentes_limpias) = 3
  /\ \E r1, r2 \in 1..Len(tabla_interseccion.rows) :
       /\ tabla_interseccion.rows[r1][2] = 3
       /\ tabla_interseccion.rows[r2][2] = 2
       /\ 0 \in Range(SubSeq(tabla_interseccion.rows[r2], 3, 5))

\* C3: the species of the intersection table are exactly the species found in two
\* or more sources, each in exactly one row.
C3_ExactlyShared ==
  Produced =>
    LET t == tabla_interseccion
        all == UNION {CleanSpecies(i) : i \in 1..Len(fuentes_limpias)}
    IN /\ TableSpecies(t) = {s \in all : CountIn(s) >= 2}
       /\ \A r1, r2 \in 1..Len(t.rows) : t.rows[r1][1] = t.rows[r2][1] => r1 = r2

\* C3 witness: a table with a row, while another species is in one source only.
C3_Witness ==
  /\ Produced
  /\ tabla_interseccion.rows # <<>>
  /\ \E i \in 1..Len(fuentes_limpias) : \E s \in CleanSpecies(i) : CountIn(s) = 1

StrLeq(s, t) == s = t \/ StrLess(s, t)

\* The species and num_fuentes of each row, in row order.
KeyOrder(df) == [r \in 1..Len(df.rows) |-> <<df.rows[r][1], df.rows[r][2]>>]

Reverse(xs) == [i \in 1..Len(xs) |-> xs[Len(xs) + 1 - i]]

\* C4: adjacent rows are ordered by num_fuentes descending, then by species
\* ascending; and the row order is the same for every order in which the species
\* are enumerated and for the sources given in the opposite order.
C4_Sorted ==
  Produced =>
    LET t == tabla_interseccion
        all == AllSpecies(SpeciesSets(fuentes_limpias, ColumnaEstandar))
    IN /\ \A r \in 1..(Len(t.rows) - 1) :
            \/ t.rows[r][2] > t.rows[r + 1][2]
            \/ /\ t.rows[r][2] = t.rows[r + 1][2]
               /\ StrLeq(t.rows[r][1], t.rows[r + 1][1])
       /\ \A orden \in Enumerations(all) :
            /\ KeyOrder(ConstruirInterseccion(fuentes_limpias, ColumnaEstandar,
                                              orden).tabla) = KeyOrder(t)
            /\ KeyOrder(ConstruirInterseccion(Reverse(fuentes_limpias), ColumnaEstandar,
                                              orden).tabla) = KeyOrder(t)

\* C4 witness: a species of three sources comes before a species of two sources
\* that precedes it alphabetically.
C4_Witness ==
  /\ Produced
  /\ Len(tabla_interseccion.rows) = 2
  /\ tabla_interseccion.rows[1][2] > tabla_interseccion.rows[2][2]
  /\ StrLess(tabla_interseccion.rows[2][1], tabla_interseccion.rows[1][1])

\* The text a raw cell stands for: coerced to text, trimmed, lower-cased.
NormText(v) == StrLower(StrStrip(AsStr(v)))

\* The normalised texts of the raw species cells of loaded source i.
RawSpecies(i) ==
  {NormText(v) : v \in Range(Column(sources_info[i].df_raw, sources_info[i].species_col))}

EnrichmentFailed == pc = "error" /\ species_sets # <<>> /\ idx <= Len(extra_cols_map)

\* The final table has the rows of the intersection table, in order, and its
\* columns first, unchanged.
SameRowsMoreColumns ==
  LET t == tabla_interseccion
      n == Len(t.columns)
  IN /\ Len(tabla_final.rows) = Len(t.rows)
     /\ Len(tabla_final.columns) >= n
     /\ SubSeq(tabla_final.columns, 1, n) = t.columns
     /\ \A r \in 1..Len(t.rows) : SubSeq(tabla_final.rows[r], 1, n) = t.rows[r]

\* C6: for every intersection table construir_interseccion returns, one without
\* rows included, and every valid extra-column declaration, the enrichment returns
\* a table with the rows of the intersection table in the same order and its
\* columns unchanged; only columns are added.
C6_EnrichmentKeepsRows == Produced => (~EnrichmentFailed /\ SameRowsMoreColumns)

\* What does hold of step 3: as long as no merge has raised, the rows are kept.
RowsKeptUnlessRaised == (Produced /\ ~EnrichmentFailed) => SameRowsMoreColumns

\* What does hold of step 3: a merge raises only on an intersection table without
\* rows or on an extra column that is the canonical column.
RaisesOnlyOnEmptyOrCanonical ==
  EnrichmentFailed =>
    \/ tabla_interseccion = EmptyFrame
    \/ extra_cols_map[idx].val = ColumnaEstandar

\* Source i declared an extra column that is a column of its cleaned frame.
DeclaresValidExtra(i) ==
  /\ sources_info[i].extra_col # Blank
  /\ sources_info[i].extra_col
       \in Range(DictGet(fuentes_limpias, sources_info[i].name).columns)

\* The final table has the enrichment column of source i, and its value in each row
\* is that of the species' row in the source's cleaned frame, or missing.
HasExtraColumn(i) ==
  LET src == sources_info[i]
      clean == DictGet(fuentes_limpias, src.name)
      col == NuevoNombreCol(src.name, src.extra_col)
      ks == ColIdx(clean, ColumnaEstandar)
  IN /\ col \in Range(tabla_final.columns)
     /\ Len(tabla_final.rows) = Len(tabla_interseccion.rows)
     /\ \A r \in 1..Len(tabla_final.rows) :
          LET s == tabla_interseccion.rows[r][1]
              v == tabla_final.rows[r][ColIdx(tabla_final, col)]
          IN IF \E j \in 1..Len(clean.rows) : clean.rows[j][ks] = s
             THEN v = clean.rows[CHOOSE j \in 1..Len(clean.rows) : clean.rows[j][ks] = s]
                                [ColIdx(clean, src.extra_col)]
             ELSE v = NaN

\* C7: once step 3 is over, for each source that declared an extra column of its
\* cleaned frame the final table has the column '{source}_{extra}', holding in the
\* row of species s the extra value of the row of s in that frame, and a missing
\* value when s is not a species of that source; no row is dropped.
C7_ExtraColumnValues ==
  (Produced /\ pc \in {"fin", "error"}) =>
     \A i \in 1..Len(sources_info) : DeclaresValidExtra(i) => HasExtraColumn(i)

\* What does hold of step 3: the columns are there whenever the run completes.
ExtraColumnsOnCompletion ==
  (Produced /\ pc = "fin") =>
     \A i \in 1..Len(sources_info) : DeclaresValidExtra(i) => HasExtraColumn(i)

\* Source i declared an extra column that its cleaned frame does not have.
ExtraAusente(src) ==
  LET res == LimpiarDataframe(src.df_raw, src.species_col, ColumnaEstandar)
  IN /\ src.extra_col # Blank
     /\ src.species_col # Blank
     /\ res.exc = "none"
     /\ src.extra_col \notin Range(res.df.columns)

\* The same sources, those of ExtraAusente declaring no extra column.
SinExtraAusente(sources) ==
  [i \in 1..Len(sources) |->
     IF ExtraAusente(sources[i]) THEN [sources[i] EXCEPT !.extra_col = Blank]
     ELSE sources[i]]

NoEsAvisoExtra(m) == m.texto # "sin_columna_extra"

\* C8: a declared extra column that the cleaned frame does not have does not abort
\* the run: a warning is emitted for the source, the source adds no column, and
\* the run ends as it ends when that source declares no extra column: same
\* tables, same display, same other messages.
C8_MissingExtraSkipped ==
  pc \in {"fin", "error", "stop"} =>
    LET alt == RunOutcome(SinExtraAusente(sources_info), busqueda)
    IN /\ alt.pc = pc
       /\ alt.tabla_interseccion = tabla_interseccion
       /\ alt.tabla_final = tabla_final
       /\ alt.df_resultado = df_resultado
       /\ alt.salida = salida
       /\ alt.mensajes = SelectSeq(mensajes, NoEsAvisoExtra)
       /\ \A i \in 1..Len(sources_info) :
            (ExtraAusente(sources_info[i]) /\ sources_info[i].name \in Range(Keys(fuentes_limpias)))
              => /\ Cardinality(Positions(mensajes,
                      Msg("warning", "sin_columna_extra", sources_info[i].name))) = 1
                 /\ sources_info[i].name \notin Range(Keys(extra_cols_map))
                 /\ NuevoNombreCol(sources_info[i].name, sources_info[i].extra_col)
                      \notin Range(tabla_final.columns)

\* C8 witness: a completed run with rows, where one source declared a column it
\* does not have and another one a column it has.
C8_Witness ==
  /\ pc = "fin"
  /\ tabla_final.rows # <<>>
  /\ \E i, j \in 1..Len(sources_info) :
       /\ ExtraAusente(sources_info[i])
       /\ Msg("warning", "sin_columna_extra", sources_info[i].name) \in Range(mensajes)
       /\ NuevoNombreCol(sources_info[j].name, sources_info[j].extra_col)
            \in Range(tabla_final.columns)
       /\ Len(tabla_final.columns) = Len(tabla_interseccion.columns) + 1

\* The declared species column of source i is not a column of its raw table.
Faulty(i) ==
  /\ sources_info[i].species_col # Blank
  /\ sources_info[i].species_col \notin Range(sources_info[i].df_raw.columns)

FirstFaulty == CHOOSE i \in 1..Len(sources_info) :
                 Faulty(i) /\ \A j \in 1..(i - 1) : ~Faulty(j)

\* C9: when the declared species column of some loaded source is not a column of
\* its raw table, limpiar_dataframe raises ValueError on it, and the run never gets
\* past the cleaning loop: it ends with an error message, and no intersection
\* table, download or indicator is produced, wherever the faulty source stands.
C9_MissingSpeciesColumnAborts ==
  (\E i \in 1..Len(sources_info) : Faulty(i)) =>
    /\ \A i \in 1..Len(sources_info) :
         Faulty(i) => LimpiarDataframe(sources_info[i].df_raw, sources_info[i].species_col,
                                       ColumnaEstandar) = Raise("ValueError")
    /\ pc \in {"inicio", "limpieza", "error", "stop"}
    /\ pc = "limpieza" => idx <= FirstFaulty
    /\ pc \in {"error", "stop"} =>
         /\ idx <= FirstFaulty
         /\ mensajes[Len(mensajes)].tipo = "error"
         /\ idx = FirstFaulty => mensajes[Len(mensajes)] = ErrorMsg("ValueError")
    /\ species_sets = <<>>
    /\ tabla_interseccion = EmptyFrame
    /\ tabla_final = EmptyFrame
    /\ df_resultado = EmptyFrame
    /\ salida = {}

\* C9 witness: the third source is the faulty one; the run stopped on it after the
\* two first sources were cleaned.
C9_Witness ==
  /\ pc = "error"
  /\ Len(sources_info) = 3
  /\ Faulty(3) /\ ~Faulty(1) /\ ~Faulty(2)
  /\ idx = 3
  /\ Len(fuentes_limpias) = 2
  /\ mensajes[Len(mensajes)] = ErrorMsg("ValueError")
  /\ salida = {}

\* ---------------------------------------------- claims on the search
\* texto contains pat as a literal substring, whatever the case of the letters.
ContainsLiteral(pat, texto) ==
  \E i \in 1..(Len(texto) - Len(pat) + 1) :
     \A k \in 1..Len(pat) : LowerChar(pat[k]) = LowerChar(texto[i + k - 1])

\* The rows of the final table whose species contains the search text literally.
LiteralFilter(df, b) ==
  IF df.columns = <<>> \/ b = <<>> THEN df
  ELSE LET col == Column(df, ColumnaEstandar)
       IN FilterRows(df, [i \in 1..Len(col) |->
                            col[i] # NaN /\ ContainsLiteral(b, col[i])])

\* Step 3 is over and step 4 has run.
Searched == pc = "fin" \/ (pc = "error" /\ species_sets # <<>> /\ ~EnrichmentFailed)

\* C11: for every search text, '.' and '(' included, the filter keeps exactly the
\* rows of the final table whose species contains the text as a literal substring,
\* whatever the case; an empty text keeps every row; what is displayed is the
\* filtered table.
C11_LiteralSearch ==
  Searched => (pc = "fin" /\ df_resultado = LiteralFilter(tabla_final, busqueda))

\* What does hold of step 4: a text of letters only, on a table that has rows,
\* keeps exactly the rows that contain it.
LiteralSearchOnLetters ==
  (Searched /\ tabla_final.rows # <<>> /\ busqueda \in {<<>>, <<"a">>})
    => (pc = "fin" /\ df_resultado = LiteralFilter(tabla_final, busqueda))

\* ---------------------------------------------- claims on the script
\* File names with and without a supported extension, in either case.
NombresArchivo ==
  {<<"a", ".", "c", "s", "v">>, <<"a", ".", "C", "S", "V">>, <<"a", ".", "X", "l", "s">>,
   <<"a", ".", "x", "l", "s", "x">>, <<"a", ".", "t", "x", "t">>, <<"a", ".", "T", "X", "T">>,
   <<"a", ".", "c", "s", "v", ".", "t", "x", "t">>, <<"t", "x", "t">>, <<"a", ".">>}

\* leer_archivo_subido raises ValueError on every extension other than csv, xls,
\* xlsx, whatever the case of its letters and whatever the file holds.
UnsupportedFormatRaised ==
  \A nombre \in NombresArchivo : \A formato \in {"csv", "excel", "ilegible"} :
     Extension(nombre) \notin {Csv, Xls, Xlsx}
       => leer_archivo_subido(Archivo(nombre, formato, EmptyFrame)) = Raise("ValueError")

\* The run ended on a failure that was reported to the user.
Reported == mensajes # <<>> /\ mensajes[Len(mensajes)].tipo \in {"error", "warning"}

\* C12: no failure escapes unhandled: every failure of a run of the script, loading
\* included, ends the run with a message to the user (or costs one extra column);
\* and loading raises the unsupported-format error on every extension other than
\* csv, xls, xlsx, compared whatever the case.
C12_NoFailureEscapes ==
  /\ app_pc # "excepcion"
  /\ pc \in {"error", "stop"} => Reported
  /\ UnsupportedFormatRaised

\* What does hold of the script: an exception escapes only from the loading loop,
\* the failures of "procesar" are reported, and the extensions are told apart.
EscapesOnlyFromLoading ==
  /\ app_pc = "excepcion" =>
       \E i \in 1..Len(tarjetas) :
          tarjetas[i].file # NoFile /\ leer_archivo_subido(tarjetas[i].file).exc # "none"
  /\ pc \in {"error", "stop"} => Reported
  /\ UnsupportedFormatRaised

\* ---------------------------------------------- claims on the merges
\* Two tables with the same rows and, under every column name, the same values.
SameTable(t1, t2) ==
  /\ Len(t1.rows) = Len(t2.rows)
  /\ Range(t1.columns) = Range(t2.columns)
  /\ \A c \in Range(t1.columns) : Column(t1, c) = Column(t2, c)

\* C13: the final table does not depend on the order of the enrichments: applied
\* in any order, the valid (source, extra column) pairs of the run give a table
\* with the same rows and, for every column name, the same values as the table of
\* the run; and a run whose enrichment raises raises in every order.
C13_OrderIndependent ==
  (Produced /\ (pc \in {"fin", "error"})) =>
     \A orden \in Enumerations(Range(extra_cols_map)) :
        LET e == Enriquecer(tabla_interseccion, fuentes_limpias, orden, 1)
        IN IF EnrichmentFailed THEN e.exc # "none"
           ELSE e.exc = "none" /\ SameTable(e.df, tabla_final)

\* C13 witness: a completed run with rows and two enrichment columns whose values
\* differ.
C13_Witness ==
  /\ pc = "fin"
  /\ Len(extra_cols_map) >= 2
  /\ tabla_final.rows # <<>>
  /\ LET n == Len(tabla_final.columns)
     IN \E r \in 1..Len(tabla_final.rows) :
          tabla_final.rows[r][n] # tabla_final.rows[r][n - 1]

\* ------------------------------------------ claims on the duplicates
\* The raw rows that limpiar_dataframe should keep: those whose species text,
\* trimmed and lower-cased, is not empty and is met for the first time.
FirstOccurrences(raw, col) ==
  LET kc == ColIdx(raw, col)
      texts == [i \in 1..Len(raw.rows) |-> NormText(raw.rows[i][kc])]
  IN SelectIdx([i \in 1..Len(raw.rows) |->
                  texts[i] # <<>> /\ \A j \in 1..(i - 1) : texts[j] # texts[i]],
               1, Len(raw.rows))

\* C14: of the rows of a source that normalise to the same species, the cleaned
\* frame keeps exactly the first, with that row's value in the other column as in
\* the raw table; the kept rows keep their order; and the enrichment value of a
\* species is the one of its first occurrence.
C14_KeepsFirst ==
  (n_pc \in {"once", "twice"} /\ n_res.exc = "none") =>
    LET kc == ColIdx(n_df, n_col)
        ko == 3 - kc
        firsts == FirstOccurrences(n_df, n_col)
        res == n_res.df
    IN /\ Len(res.rows) = Len(firsts)
       /\ \A j \in 1..Len(firsts) :
            /\ res.rows[j][kc] = NormText(n_df.rows[firsts[j]][kc])
            /\ res.rows[j][ko] = n_df.rows[firsts[j]][ko]
            /\ LET m == MergeExtra(DataFrame(<<ColumnaEstandar>>, << <<res.rows[j][kc]>> >>),
                                   res, DefaultNames[1], n_df.columns[ko], ColumnaEstandar)
               IN /\ m.exc = "none"
                  /\ m.df.rows = << <<res.rows[j][kc], n_df.rows[firsts[j]][ko]>> >>

\* C14 witness: two raw rows written differently that normalise to the same
\* species; the cleaned frame has the first one only.
C14_Witness ==
  /\ n_pc = "once"
  /\ n_res.exc = "none"
  /\ Len(n_df.rows) = 2
  /\ LET kc == ColIdx(n_df, n_col)
     IN /\ n_df.rows[1][kc] # n_df.rows[2][kc]
        /\ NormText(n_df.rows[1][kc]) = NormText(n_df.rows[2][kc])
        /\ Len(n_res.df.rows) = 1
        /\ n_res.df.rows[1][3 - kc] = IdStr(1)

\* ---------------------------------------------- claims on the cards
\* The cards that hold a file, in card order.
ConArchivo ==
  SelectIdx([i \in 1..Len(tarjetas) |-> tarjetas[i].file # NoFile], 1, Len(tarjetas))

\* C15: the number of sources is 3 plus the number of clicks on "Agregar otra
\* fuente"; the names of the cards are pairwise distinct; a run of the script
\* loads one source per card that holds a file, under the card's name, and skips
\* the cards without a file; and each source cleaned by "procesar" has its own
\* entry in fuentes_limpias, none overwritten.
C15_SourcesAndNames ==
  /\ num_sources = 3 + clics_agregar
  /\ Len(tarjetas) = num_sources
  /\ \A i, j \in 1..num_sources : NombreBase(i) = NombreBase(j) => i = j
  /\ app_pc = "listo" =>
       /\ Len(sources_info) = Len(ConArchivo)
       /\ \A k \in 1..Len(ConArchivo) :
            /\ sources_info[k].name = NombreBase(ConArchivo[k])
            /\ sources_info[k].df_raw = tarjetas[ConArchivo[k]].file.df
  /\ Len(fuentes_limpias) <= Len(sources_info)
  /\ \A k \in 1..Len(fuentes_limpias) : fuentes_limpias[k].key = sources_info[k].name
  /\ species_sets # <<>> => Len(fuentes_limpias) = Len(sources_info)

\* C15 witness: a fourth card was added; the first and the fourth hold a file, the
\* second does not; "procesar" cleaned both under their own names.
C15_Witness ==
  /\ num_sources = 4
  /\ clics_agregar = 1
  /\ tarjetas[1].file # NoFile
  /\ tarjetas[2].file = NoFile
  /\ tarjetas[3].file = NoFile
  /\ tarjetas[4].file # NoFile
  /\ pc = "fin"
  /\ Keys(fuentes_limpias) = <<DefaultNames[1], <<"Fuente ", "4">>>>
  /\ tabla_interseccion.rows # <<>>

\* ------------------------------------- claims on the empty intersection
\* At least one source is loaded and every declared species column exists.
AllSpeciesColsExist ==
  /\ sources_info # <<>>
  /\ \A i \in 1..Len(sources_info) :
       /\ sources_info[i].species_col # Blank
       /\ sources_info[i].species_col \in Range(sources_info[i].df_raw.columns)

\* No species is in two sources.
NoSharedSpecies ==
  \A i, j \in 1..Len(sources_info) :
     i # j => (RawSpecies(i) \cap RawSpecies(j)) \subseteq {<<>>}

\* The result state of a run with no coincident species.
ZeroCoincidences ==
  /\ pc = "fin"
  /\ df_resultado.rows = <<>>
  /\ salida = {"resumen", "indicadores"}

\* C16: a run over at least one source, every declared species column existing,
\* no species shared by two sources, ends in the result state, reporting 0
\* coincident species and showing the indicators per source, never in an error
\* state, whatever the search text and the valid extra columns.
C16_NoSharedEndsInResult ==
  (AllSpeciesColsExist /\ NoSharedSpecies /\ pc \in {"fin", "error", "stop"})
    => ZeroCoincidences

\* What does hold of such a run: it ends in the result state when the search box
\* is empty, no valid extra column was declared and no species column is renamed
\* onto a column that is already there.
NoSharedPlainRunEndsInResult ==
  (/\ AllSpeciesColsExist /\ NoSharedSpecies /\ pc \in {"fin", "error", "stop"}
   /\ busqueda = <<>>
   /\ extra_cols_map = <<>>
   /\ \A i \in 1..Len(sources_info) :
        \/ sources_info[i].species_col = ColumnaEstandar
        \/ ColumnaEstandar \notin Range(sources_info[i].df_raw.columns))
    => ZeroCoincidences

====
